---------------------------- MODULE Spec2Model ----------------------------
(***************************************************************************)
(* LifeConnect logistics engine (src/logistic_engine/route_optimizer.py)   *)
(* and the transport tracking routes of the backend                        *)
(* (src/backend/routes/logistics_routes.py).                               *)
(*                                                                         *)
(* Units.  Distances are integers in metres (the code's float kilometres   *)
(* times 1000), durations are integers in minutes, provider durations are  *)
(* seconds, clock values are minutes.  Coordinates are abstract positions  *)
(* on a line, in units of 100 m; geopy's geodesic() is the distance        *)
(* between two positions.                                                  *)
(***************************************************************************)
EXTENDS Integers, Sequences, FiniteSets, TLC

VARIABLES
    vehicles,   \* self.vehicles: the fleet, a sequence of TransportVehicle
    apiKey,     \* self.google_maps_key is configured
    est,        \* one calculate_distance_and_time call and its result
    opt,        \* one optimize_organ_transport call: its position and locals
    db,         \* transport_db_sim: the stored transport record
    now,        \* the clock, datetime.now(timezone.utc), in minutes
    resp,       \* the last answer of a tracking / monitoring handler
    plan,       \* one create_transport_plan call, its plan and its report
    hospitals,  \* self.hospitals: the hospital registry
    checkpoints, \* self.checkpoints: the checkpoint registry
    calls       \* two callers' create_transport_plan calls on the one engine

vars == <<vehicles, apiKey, est, opt, db, now, resp, plan, hospitals, checkpoints, calls>>

--------------------------------------------------------------------------
(* Bounds of the model *)

MaxReqs == 3
MaxFleet == 3
MaxClock == 4

(* Program constants *)

UrgencyThreshold == 80
PickupWindow == 60
MaxRouteTime == 720
DefaultSpeed == 60
ProgressCap == 95
SimulatedDuration == 120

--------------------------------------------------------------------------
(* Python builtins used by the code *)

Min(a, b) == IF a <= b THEN a ELSE b

Abs(a) == IF a >= 0 THEN a ELSE -a

\* int(a / b) for b > 0: truncation toward zero.
Trunc(a, b) == IF a >= 0 THEN a \div b ELSE -((-a) \div b)

RECURSIVE SumSeq(_)
SumSeq(s) == IF s = <<>> THEN 0 ELSE Head(s) + SumSeq(Tail(s))

--------------------------------------------------------------------------
(* Locations.  A Location is a dataclass: its equality is structural, over *)
(* every field (name, address, coordinates, ...).                          *)

Location(n, a, p) == [name |-> n, address |-> a, pos |-> p]

CityGeneral == Location("City General Hospital", "123 Medical Center Dr, Downtown, New York, NY", 0)
MetroMedical == Location("Metro Medical Center", "456 Health Plaza, Uptown, New York, NY", 700)
RegionalTrauma == Location("Regional Trauma Center", "789 Emergency Ave, Midtown, New York, NY", 405)
UniversityHospital == Location("University Hospital", "321 Campus Blvd, University District, New York, NY", 1003)

\* The sample data's City General: the registry's coordinates, a shorter address.
CityGeneralSample == Location("City General Hospital", "123 Medical Center Dr", 0)

Locations == {CityGeneral, MetroMedical, RegionalTrauma, UniversityHospital, CityGeneralSample}

\* A key that tells apart two records of the same coordinates.
LocIdentity(loc) == loc

\* loc_key = (loc.lat, loc.lng)
LocKey(loc) == loc.pos

\* geodesic((lat, lng), (lat, lng)).kilometers, in metres
Geodesic(a, b) == Abs(a.pos - b.pos) * 100

--------------------------------------------------------------------------
(* Distance/duration estimator *)

TransportModes == {"medical_helicopter", "ambulance", "medical_van", "driving", "cargo_drone"}

\* What one call of the Directions API can do.
ProviderOutcomes == {"timeout", "http_error", "bad_status", "empty_routes", "exception", "ok"}

\* route['distance']['value'] (metres) and route['duration']['value'] (seconds)
ProviderResponses == {[metres |-> 0, seconds |-> 0], [metres |-> 5300, seconds |-> 500],
                      [metres |-> 91000, seconds |-> 4210], [metres |-> 98000, seconds |-> 5400]}

Pair(d, t) == [exc |-> "none", distance |-> d, duration |-> t]

Raised(e) == [exc |-> e, distance |-> 0, duration |-> 0]

SpeedMapUniform(mode) == DefaultSpeed

\* speed_map.get(transport_mode, 60)
SpeedMap(mode) ==
    CASE mode = "medical_helicopter" -> 200
      [] mode = "ambulance" -> 60
      [] mode = "medical_van" -> 50
      [] mode = "driving" -> 60
      [] OTHER -> DefaultSpeed

\* (distance_km, int((distance_km / avg_speed) * 60))
CalculateGeodesicRoute(origin, destination, mode) ==
    LET distance == Geodesic(origin, destination)
    IN  Pair(distance, Trunc(distance * 60, SpeedMap(mode) * 1000))

\* duration_min * 0.7 is a product of doubles.  For these provider durations
\* (seconds, all there are up to 12 hours) the double (seconds / 60) * 0.7 is
\* the one just below the whole number the exact product is, and int() of it
\* is one minute less: int(90.0 * 0.7) = int(62.99999999999999) = 62.  Up to
\* 12 hours no product with 0.4 and no quotient by 60 falls short this way.
RoundsBelow ==
    {5400, 10200, 10800, 19800, 20400, 21000, 21600, 39000, 39600, 40200, 40800,
     41400, 42000, 42600, 43200}

\* "Adjust for special vehicles", then (distance_km, int(duration_min))
AdjustForVehicle(mode, r) ==
    CASE mode = "medical_helicopter" -> Pair((r.metres * 7) \div 10, Trunc(r.seconds * 4, 600))
      [] mode = "ambulance" ->
            Pair(r.metres,
                 Trunc(r.seconds * 7, 600) - (IF r.seconds \in RoundsBelow THEN 1 ELSE 0))
      [] OTHER -> Pair(r.metres, Trunc(r.seconds, 60))

DirectionsBodyNoStatusCheck(origin, destination, mode, outcome, r) ==
    CASE outcome = "timeout" -> Raised("Timeout")
      [] outcome = "exception" -> Raised("Exception")
      [] outcome = "ok" -> AdjustForVehicle(mode, r)
      [] OTHER -> Pair(0, 0)

\* The try block of _get_google_directions: the request, the status checks
\* and the parse of the first leg.
DirectionsBody(origin, destination, mode, outcome, r) ==
    CASE outcome = "timeout" -> Raised("Timeout")
      [] outcome = "exception" -> Raised("Exception")
      [] outcome = "http_error" -> CalculateGeodesicRoute(origin, destination, mode)
      [] outcome = "bad_status" -> CalculateGeodesicRoute(origin, destination, mode)
      [] outcome = "empty_routes" -> CalculateGeodesicRoute(origin, destination, mode)
      [] OTHER -> AdjustForVehicle(mode, r)

\* _get_google_directions with its two except clauses
GetGoogleDirections(origin, destination, mode, outcome, r) ==
    LET body == DirectionsBody(origin, destination, mode, outcome, r)
    IN  IF body.exc # "none" THEN CalculateGeodesicRoute(origin, destination, mode)
        ELSE body

\* calculate_distance_and_time: key holds whether GOOGLE_MAPS_API_KEY is set
CalculateDistanceAndTime(key, origin, destination, mode, outcome, r) ==
    LET inner == IF key THEN GetGoogleDirections(origin, destination, mode, outcome, r)
                 ELSE CalculateGeodesicRoute(origin, destination, mode)
    IN  IF inner.exc # "none" THEN CalculateGeodesicRoute(origin, destination, mode)
        ELSE inner

--------------------------------------------------------------------------
(* Requests and fleet *)

OrganTransport(id, pickup, delivery, hours, urgency) ==
    [organ_id |-> id, pickup_location |-> pickup, delivery_location |-> delivery,
     max_transport_time |-> hours, urgency_score |-> urgency]

\* The transport requests a caller may put in a batch (organ ids are distinct).
RequestPool ==
    {OrganTransport("ORG_001", CityGeneral, MetroMedical, 8, 95),
     OrganTransport("ORG_002", MetroMedical, RegionalTrauma, 8, 95),
     OrganTransport("ORG_003", RegionalTrauma, UniversityHospital, 12, 60),
     OrganTransport("ORG_004", CityGeneralSample, RegionalTrauma, 24, 45),
     OrganTransport("ORG_005", CityGeneral, MetroMedical, 12, 78),
     OrganTransport("ORG_006", MetroMedical, MetroMedical, 12, 50)}

\* Batches: sequences of distinct pool requests, the empty batch included.
Batches ==
    {b \in UNION {[1..n -> RequestPool] : n \in 0..MaxReqs} :
        \A i, j \in DOMAIN b : i # j => b[i] # b[j]}

TransportVehicle(id, type, loc, speed) ==
    [vehicle_id |-> id, vehicle_type |-> type, current_location |-> loc,
     speed_kmh |-> speed, available |-> TRUE]

SpecialtyTransplant == Location("Specialty Transplant Center", "654 Organ Ave, Medical District, New York, NY", 1100)

\* _initialize_vehicle_fleet
FleetRegistry ==
    <<TransportVehicle("MED001", "medical_helicopter", CityGeneral, 200),
      TransportVehicle("AMB001", "ambulance", MetroMedical, 80),
      TransportVehicle("AMB002", "ambulance", RegionalTrauma, 80),
      TransportVehicle("VAN001", "medical_van", UniversityHospital, 60),
      TransportVehicle("MED002", "medical_helicopter", SpecialtyTransplant, 200)>>

\* _load_hospital_network
HospitalRegistry ==
    <<CityGeneral, MetroMedical, RegionalTrauma, UniversityHospital, SpecialtyTransplant>>

\* _load_checkpoints
CheckpointRegistry ==
    <<Location("Highway Junction A", "Interstate 95 & Route 1, New York, NY", 150),
      Location("Medical District Bridge", "Health Sciences Bridge, New York, NY", 520),
      Location("Airport Medical Hub", "JFK International Airport, Queens, NY", 3000),
      Location("Emergency Relay Station", "Central Emergency Services, New York, NY", 1250)>>

--------------------------------------------------------------------------
(* Multi-shipment optimizer: location list and duration matrix *)

\* locations.extend([request.pickup_location, request.delivery_location])
RECURSIVE AllLocations(_)
AllLocations(reqs) ==
    IF reqs = <<>> THEN <<>>
    ELSE <<Head(reqs).pickup_location, Head(reqs).delivery_location>> \o AllLocations(Tail(reqs))

\* "Remove duplicates while preserving order": seen holds (lat, lng) keys
RECURSIVE Dedup(_, _)
Dedup(locs, acc) ==
    IF locs = <<>> THEN acc
    ELSE IF \E k \in DOMAIN acc : LocKey(acc[k]) = LocKey(Head(locs))
         THEN Dedup(Tail(locs), acc)
         ELSE Dedup(Tail(locs), Append(acc, Head(locs)))

UniqueLocations(reqs) == Dedup(AllLocations(reqs), <<>>)

\* What the Directions API answers for a pair when it answers: road distance
\* and a duration that depends on the direction of travel.
ProviderRoad(origin, destination) ==
    LET metres == (Geodesic(origin, destination) * 13) \div 10
    IN  [metres |-> metres,
         seconds |-> (metres * 72) \div 1000
                     + (IF origin.pos < destination.pos THEN 600 ELSE 0)]

\* The provider's behaviour during one optimize call: it answers every
\* request, it times out on every request, or (flaky) it answers the matrix
\* requests for the pairs in list order, times out on the reversed pairs and
\* answers the later requests of the call.
CallOutcomes == {"ok", "timeout", "flaky"}

\* The outcome of the request for the ordered pair (i, j) of the matrix
PairOutcome(outcome, i, j) ==
    IF outcome = "flaky" THEN (IF i < j THEN "ok" ELSE "timeout") ELSE outcome

\* _create_distance_matrix: duration_min of every ordered pair, 0 on the diagonal
CreateDistanceMatrix(key, outcome, locs) ==
    [i \in DOMAIN locs |->
        [j \in DOMAIN locs |->
            IF i = j THEN 0
            ELSE CalculateDistanceAndTime(key, locs[i], locs[j], "driving",
                                          PairOutcome(outcome, i, j),
                                          ProviderRoad(locs[i], locs[j])).duration]]

--------------------------------------------------------------------------
(* Multi-shipment optimizer: the routing model.  Nodes are positions of    *)
(* the location list, 1-based: the code's node k is node k + 1 here, the   *)
(* depot (code: 0) is node 1.                                              *)

\* min(len(self.vehicles), len(transport_requests))
NumVehiclesWholeFleet(fleet, reqs) == Len(fleet)

NumVehicles(fleet, reqs) == Min(Len(fleet), Len(reqs))

\* manager.NodeToIndex(i * 2) and manager.NodeToIndex(i * 2 + 1) of the
\* request at 1-based batch position p
PickupNode(p) == 2 * p - 1

DeliveryNode(p) == 2 * p

Urgent(reqs) == {p \in DOMAIN reqs : reqs[p].urgency_score > UrgencyThreshold}

\* The SetRange calls of the batch: <<node, upper bound>>
WindowCalls(reqs) ==
    {<<PickupNode(p), PickupWindow>> : p \in Urgent(reqs)}
    \cup {<<DeliveryNode(p), reqs[p].max_transport_time * 60>> : p \in Urgent(reqs)}

\* A node number past the location list is read past the end of the
\* manager's table: NodeToIndex yields the index of any location node, or an
\* index that belongs to no location node (0), whose range binds no visit.
OutOfRange(reqs, n) == {c \in WindowCalls(reqs) : c[1] > n}

Landings(reqs, n) == [OutOfRange(reqs, n) -> 0..n]

\* The upper bound the time dimension puts on each node's cumulative time:
\* the dimension's capacity, tightened by the SetRange calls.
Windows(reqs, n, landing) ==
    [node \in 1..n |->
        LET direct == {c[2] : c \in {d \in WindowCalls(reqs) : d[1] = node}}
            landed == {c[2] : c \in {d \in OutOfRange(reqs, n) : landing[d] = node}}
            all == direct \cup landed \cup {MaxRouteTime}
        IN  CHOOSE m \in all : \A x \in all : m <= x]

RECURSIVE Perms(_)
Perms(S) ==
    IF S = {} THEN {<<>>}
    ELSE UNION {{<<x>> \o p : p \in Perms(S \ {x})} : x \in S}

\* Every way to visit each node of S exactly once with v vehicles: one
\* sequence of stops per vehicle.
RECURSIVE Tours(_, _)
Tours(S, v) ==
    IF v = 0 THEN (IF S = {} THEN {<<>>} ELSE {})
    ELSE UNION {UNION {{<<p>> \o rest : rest \in Tours(S \ T, v - 1)} : p \in Perms(T)}
                : T \in SUBSET S}

\* Sum of the transit callback over the first k arcs of a path
RECURSIVE PathTime(_, _, _)
PathTime(matrix, path, k) ==
    IF k = 0 THEN 0
    ELSE PathTime(matrix, path, k - 1) + matrix[path[k]][path[k + 1]]

\* The vehicle's path through the model: depot, its stops, depot
Path(stops) == <<1>> \o stops \o <<1>>

\* Earliest cumulative time at each node under a tour (waiting only delays)
Arrival(matrix, tours, n) ==
    [node \in 1..n |->
        IF node = 1 THEN 0
        ELSE LET v == CHOOSE w \in DOMAIN tours : \E k \in DOMAIN tours[w] : tours[w][k] = node
                 k == CHOOSE j \in DOMAIN tours[v] : tours[v][j] = node
             IN  PathTime(matrix, Path(tours[v]), k)]

\* The time dimension: every cumul within its range, every route within the
\* capacity.  All lower bounds are 0, so a tour is feasible exactly when its
\* earliest schedule is.
Feasible(matrix, tours, windows, n) ==
    /\ \A node \in 1..n : Arrival(matrix, tours, n)[node] <= windows[node]
    /\ \A v \in DOMAIN tours :
          PathTime(matrix, Path(tours[v]), Len(tours[v]) + 1) <= MaxRouteTime

--------------------------------------------------------------------------
(* Multi-shipment optimizer: results *)

Range(s) == {s[k] : k \in DOMAIN s}

\* [request.organ_id for request in transport_requests
\*  if request.pickup_location in route_locations]
RECURSIVE OrgansOn(_, _)
OrgansOn(reqs, route_locations) ==
    IF reqs = <<>> THEN <<>>
    ELSE (IF Head(reqs).pickup_location \in Range(route_locations)
          THEN <<Head(reqs).organ_id>> ELSE <<>>)
         \o OrgansOn(Tail(reqs), route_locations)

\* One pass of the loop of _extract_solution for vehicle_id = v - 1
RouteInfo(fleet, reqs, locs, matrix, stops, v) ==
    LET path == Path(stops)
        route_locations == [k \in DOMAIN path |-> locs[path[k]]]
        route_distance == PathTime(matrix, path, Len(path) - 1)
    IN  [vehicle |-> fleet[v],
         locations |-> route_locations,
         distance_km |-> route_distance * 60,
         time_minutes |-> route_distance,
         organs_transported |-> OrgansOn(reqs, route_locations)]

\* An extraction that returns a route for every solver vehicle.
RECURSIVE ExtractRoutesAll(_, _, _, _, _, _)
ExtractRoutesAll(fleet, reqs, locs, matrix, tours, v) ==
    IF v > Len(tours) THEN <<>>
    ELSE <<RouteInfo(fleet, reqs, locs, matrix, tours[v], v)>>
         \o ExtractRoutesAll(fleet, reqs, locs, matrix, tours, v + 1)

\* "Only include routes with actual stops": len(route_locations) > 2
RECURSIVE ExtractRoutes(_, _, _, _, _, _)
ExtractRoutes(fleet, reqs, locs, matrix, tours, v) ==
    IF v > Len(tours) THEN <<>>
    ELSE (IF Len(Path(tours[v])) > 2
          THEN <<RouteInfo(fleet, reqs, locs, matrix, tours[v], v)>> ELSE <<>>)
         \o ExtractRoutes(fleet, reqs, locs, matrix, tours, v + 1)

\* Totals that keep the last route's figures instead of accumulating them.
SolutionLastRoute(routes, method) ==
    [routes |-> routes,
     total_distance_km |-> IF routes = <<>> THEN 0 ELSE routes[Len(routes)].distance_km,
     total_time_minutes |-> IF routes = <<>> THEN 0 ELSE routes[Len(routes)].time_minutes,
     optimization_method |-> method,
     vehicles_used |-> Len(routes)]

\* The dict returned by _extract_solution and by _create_fallback_solution
Solution(routes, method) ==
    [routes |-> routes,
     total_distance_km |-> SumSeq([k \in DOMAIN routes |-> routes[k].distance_km]),
     total_time_minutes |-> SumSeq([k \in DOMAIN routes |-> routes[k].time_minutes]),
     optimization_method |-> method,
     vehicles_used |-> Len(routes)]

\* _extract_solution
ExtractSolution(fleet, reqs, locs, matrix, tours) ==
    Solution(ExtractRoutes(fleet, reqs, locs, matrix, tours, 1), "or_tools")

\* A fallback route estimated for the default mode instead of the vehicle's.
FallbackRouteDriving(key, outcome, vehicle, request) ==
    LET e == CalculateDistanceAndTime(key, request.pickup_location,
                                      request.delivery_location, "driving", outcome,
                                      ProviderRoad(request.pickup_location,
                                                   request.delivery_location))
    IN  [vehicle |-> vehicle,
         locations |-> <<request.pickup_location, request.delivery_location>>,
         distance_km |-> e.distance,
         time_minutes |-> e.duration,
         organs_transported |-> <<request.organ_id>>]

\* One pass of the loop of _create_fallback_solution
FallbackRoute(key, outcome, vehicle, request) ==
    LET e == CalculateDistanceAndTime(key, request.pickup_location,
                                      request.delivery_location, vehicle.vehicle_type,
                                      outcome,
                                      ProviderRoad(request.pickup_location,
                                                   request.delivery_location))
    IN  [vehicle |-> vehicle,
         locations |-> <<request.pickup_location, request.delivery_location>>,
         distance_km |-> e.distance,
         time_minutes |-> e.duration,
         organs_transported |-> <<request.organ_id>>]

\* A fallback that reuses the fleet round-robin for the requests past it.
FallbackRoutesRoundRobin(key, outcome, fleet, reqs) ==
    IF fleet = <<>> THEN <<>>
    ELSE [i \in DOMAIN reqs |->
            FallbackRoute(key, outcome, fleet[((i - 1) % Len(fleet)) + 1], reqs[i])]

\* The loop of _create_fallback_solution: request i gets vehicle i while
\* i < len(self.vehicles)
FallbackRoutes(key, outcome, fleet, reqs) ==
    [i \in 1..Min(Len(reqs), Len(fleet)) |->
        FallbackRoute(key, outcome, fleet[i], reqs[i])]

\* _create_fallback_solution
CreateFallbackSolution(key, outcome, fleet, reqs) ==
    Solution(FallbackRoutes(key, outcome, fleet, reqs), "fallback_direct")

ErrorResult(e) == [error |-> e]

\* An except clause that does not handle the exception.
HandleVrpErrorReraise(key, outcome, fleet, reqs) == ErrorResult("Exception")

\* except Exception as e: return self._create_fallback_solution(...)
HandleVrpError(key, outcome, fleet, reqs) ==
    CreateFallbackSolution(key, outcome, fleet, reqs)

\* return {"routes": [], "total_time": 0, "total_distance": 0}
EmptyResult == [routes |-> <<>>, total_time |-> 0, total_distance |-> 0]

--------------------------------------------------------------------------
(* Idle values of the per-call variables *)

EstIdle == [pc |-> "idle"]

NoResult == [none |-> TRUE]

OptIdle ==
    [pc |-> "idle", reqs |-> <<>>, provider |-> "none", locations |-> <<>>,
     matrix |-> <<>>, est_calls |-> 0, solver_runs |-> 0, outcome |-> "none",
     windows |-> <<>>, tours |-> <<>>, arrival |-> <<>>, result |-> NoResult]

NoTransport ==
    [status |-> "absent", started |-> FALSE, started_at |-> 0, estimated_duration |-> 0]

NoResp == [kind |-> "none", items |-> <<>>]

PlanIdle == [pc |-> "idle"]

Callers == {1, 2}

NoCalls == [c \in Callers |-> PlanIdle]

--------------------------------------------------------------------------
(* The estimator as a program: one call with every input and every         *)
(* provider outcome.                                                       *)

InitEstimator ==
    /\ vehicles = <<>>
    /\ apiKey \in BOOLEAN
    /\ est = EstIdle
    /\ opt = OptIdle
    /\ db = NoTransport
    /\ now = 0
    /\ resp = NoResp
    /\ plan = PlanIdle
    /\ hospitals = HospitalRegistry
    /\ checkpoints = CheckpointRegistry
    /\ calls = NoCalls

Estimate ==
    /\ est.pc = "idle"
    /\ \E origin \in Locations, destination \in Locations, mode \in TransportModes,
          outcome \in ProviderOutcomes, r \in ProviderResponses :
          est' = [pc |-> "done", origin |-> origin, destination |-> destination,
                  mode |-> mode, outcome |-> outcome, response |-> r,
                  result |-> CalculateDistanceAndTime(apiKey, origin, destination,
                                                      mode, outcome, r)]
    /\ UNCHANGED <<vehicles, apiKey, opt, db, now, resp, plan, hospitals, checkpoints, calls>>

EstimateReturn ==
    /\ est.pc = "done"
    /\ est' = EstIdle
    /\ UNCHANGED <<vehicles, apiKey, opt, db, now, resp, plan, hospitals, checkpoints, calls>>

NextEstimator == Estimate \/ EstimateReturn

SpecEstimator == InitEstimator /\ [][NextEstimator]_vars

--------------------------------------------------------------------------
(* optimize_organ_transport as a program *)

Init ==
    /\ \E n \in 0..MaxFleet : vehicles = SubSeq(FleetRegistry, 1, n)
    /\ apiKey \in BOOLEAN
    /\ est = EstIdle
    /\ opt = OptIdle
    /\ db = NoTransport
    /\ now = 0
    /\ resp = NoResp
    /\ plan = PlanIdle
    /\ hospitals = HospitalRegistry
    /\ checkpoints = CheckpointRegistry
    /\ calls = NoCalls

NeverEmpty(reqs) == FALSE

\* if not transport_requests
IsEmptyBatch(reqs) == reqs = <<>>

\* optimize_organ_transport up to the location list
Optimize ==
    /\ opt.pc = "idle"
    /\ \E batch \in Batches :
          opt' = IF IsEmptyBatch(batch)
                 THEN [OptIdle EXCEPT !.pc = "done", !.reqs = batch, !.result = EmptyResult]
                 ELSE [OptIdle EXCEPT !.pc = "matrix", !.reqs = batch,
                                      !.locations = UniqueLocations(batch)]
    /\ UNCHANGED <<vehicles, apiKey, est, db, now, resp, plan, hospitals, checkpoints, calls>>

\* _create_distance_matrix; its last line reads matrix[0]
OptimizeMatrix ==
    /\ opt.pc = "matrix"
    /\ \E outcome \in (IF apiKey THEN CallOutcomes ELSE {"no_key"}) :
          LET n == Len(opt.locations)
          IN  opt' = IF n = 0
                     THEN [opt EXCEPT !.pc = "done", !.provider = outcome,
                                      !.result = ErrorResult("IndexError")]
                     ELSE [opt EXCEPT !.pc = "solve", !.provider = outcome,
                                      !.matrix = CreateDistanceMatrix(apiKey, outcome, opt.locations),
                                      !.est_calls = n * (n - 1)]
    /\ UNCHANGED <<vehicles, apiKey, est, db, now, resp, plan, hospitals, checkpoints, calls>>

\* _solve_vrp when no solution comes back: the model or the search raises
\* (raise_build), the solver returns None (no_solution), or the extraction
\* of a solution raises (raise_extract).
SolveVRPFallback ==
    /\ opt.pc = "solve"
    /\ \E o \in {"raise_build", "no_solution", "raise_extract"} :
          LET fallback == IF o = "no_solution"
                          THEN CreateFallbackSolution(apiKey, opt.provider, vehicles, opt.reqs)
                          ELSE HandleVrpError(apiKey, opt.provider, vehicles, opt.reqs)
          IN  opt' = [opt EXCEPT !.pc = "done", !.outcome = o,
                                 !.solver_runs = IF o = "raise_build" THEN 0 ELSE 1,
                                 !.est_calls = @ + (IF "routes" \in DOMAIN fallback
                                                    THEN Len(fallback.routes) ELSE 0),
                                 !.result = fallback]
    /\ UNCHANGED <<vehicles, apiKey, est, db, now, resp, plan, hospitals, checkpoints, calls>>

\* _solve_vrp when SolveWithParameters returns a solution: any tour of the
\* vehicles that the time dimension admits, then _extract_solution.
SolveVRPSolution ==
    /\ opt.pc = "solve"
    /\ NumVehicles(vehicles, opt.reqs) >= 1
    /\ LET n == Len(opt.locations)
       IN  \E landing \in Landings(opt.reqs, n) :
             \E tours \in Tours(2..n, NumVehicles(vehicles, opt.reqs)) :
                LET windows == Windows(opt.reqs, n, landing)
                IN  /\ Feasible(opt.matrix, tours, windows, n)
                    /\ opt' = [opt EXCEPT !.pc = "done", !.outcome = "solution",
                                          !.solver_runs = 1,
                                          !.windows = windows,
                                          !.tours = tours,
                                          !.arrival = Arrival(opt.matrix, tours, n),
                                          !.result = ExtractSolution(vehicles, opt.reqs,
                                                                     opt.locations,
                                                                     opt.matrix, tours)]
    /\ UNCHANGED <<vehicles, apiKey, est, db, now, resp, plan, hospitals, checkpoints, calls>>

OptimizeReturn ==
    /\ opt.pc = "done"
    /\ opt' = OptIdle
    /\ UNCHANGED <<vehicles, apiKey, est, db, now, resp, plan, hospitals, checkpoints, calls>>

Next == Optimize \/ OptimizeMatrix \/ SolveVRPFallback \/ SolveVRPSolution \/ OptimizeReturn

Spec == Init /\ [][Next]_vars

--------------------------------------------------------------------------
(* Transport tracking: the stored record, the clock, and the handlers that *)
(* derive progress from them.                                              *)

Statuses == {"planned", "in_progress", "delivered", "delayed", "failed"}

\* estimated_duration values a stored record may carry, in minutes
Durations == {0, 2, SimulatedDuration}

\* started_at is None (started = FALSE) or a timestamp, which the external
\* system writes from its own clock: it may lie ahead of this clock.
Record(status, started, started_at, duration) ==
    [status |-> status, started |-> started, started_at |-> started_at,
     estimated_duration |-> duration]

Item(status, has, progress) == [status |-> status, has_progress |-> has, progress |-> progress]

Answer(kind, items) == [kind |-> kind, items |-> items]

\* A progress without the cap.
ElapsedProgressUncapped(elapsed, duration) == Trunc(elapsed * 100, duration)

\* min(95, int((elapsed_minutes / estimated_duration) * 100))
ElapsedProgress(elapsed, duration) == Min(ProgressCap, Trunc(elapsed * 100, duration))

\* A progress computed from the start time whatever the status is.
TrackProgressAnyStatus(rec, clock) ==
    IF rec.started /\ rec.estimated_duration > 0
    THEN ElapsedProgress(clock - rec.started_at, rec.estimated_duration)
    ELSE 0

\* track_transport, lines 162-166
TrackProgress(rec, clock) ==
    IF rec.status = "in_progress" /\ rec.started /\ rec.estimated_duration > 0
    THEN ElapsedProgress(clock - rec.started_at, rec.estimated_duration)
    ELSE 0

\* progress: int = Field(..., ge=0, le=100)
ValidProgress(p) == 0 <= p /\ p <= 100

\* track_transport.  The function assigns the local name status (line 157),
\* which hides the imported fastapi status module in the whole body: for a
\* missing record, building the 404 exception reads the unbound local (line
\* 153) and the handler at line 196 reads it again, so the call ends with an
\* unhandled error; a value the response model rejects raises inside the try
\* block and the handler at line 196 fails on the str in status.  Both end
\* as a server error with no tracking data.
TrackAnswer(rec, clock) ==
    IF rec.status = "absent" THEN Answer("server_error", <<>>)
    ELSE IF ~ValidProgress(TrackProgress(rec, clock)) THEN Answer("server_error", <<>>)
    ELSE Answer("tracking", <<Item(rec.status, TRUE, TrackProgress(rec, clock))>>)

\* get_active_transports, lines 113-121: route_progress is assigned after the
\* item is built (no validation on assignment) and stays None when neither
\* branch is taken.
ListedItem(rec, clock) ==
    IF rec.status = "in_progress" /\ rec.started
    THEN Item(rec.status, TRUE,
              IF rec.estimated_duration > 0
              THEN ElapsedProgress(clock - rec.started_at, rec.estimated_duration)
              ELSE 0)
    ELSE IF rec.status = "planned" THEN Item(rec.status, TRUE, 0)
    ELSE Item(rec.status, FALSE, 0)

\* get_active_transports: only planned and in_progress records are listed
ListAnswer(rec, clock) ==
    Answer("listing",
           IF rec.status \in {"planned", "in_progress"} THEN <<ListedItem(rec, clock)>>
           ELSE <<>>)

\* monitor_active_transports: three simulated transports,
\* route_progress = min(100, 25 + i * 25)
MonitorAnswer ==
    Answer("monitor", [i \in 1..3 |-> Item("in_transit", TRUE, Min(100, 25 + (i - 1) * 25))])

InitTracker ==
    /\ vehicles = <<>>
    /\ apiKey = FALSE
    /\ est = EstIdle
    /\ opt = OptIdle
    /\ db = NoTransport
    /\ now = 0
    /\ resp = NoResp
    /\ plan = PlanIdle
    /\ hospitals = HospitalRegistry
    /\ checkpoints = CheckpointRegistry
    /\ calls = NoCalls

\* POST /logistics/create-transport-plan stores a planned record with the
\* simulated engine's duration
CreateTransportPlan ==
    /\ resp = NoResp
    /\ db' = Record("planned", FALSE, 0, SimulatedDuration)
    /\ UNCHANGED <<vehicles, apiKey, est, opt, now, resp, plan, hospitals, checkpoints, calls>>

\* The external system that owns the store starts, delays, completes or
\* fails a transport and may rewrite its duration.
ExternalUpdate ==
    /\ resp = NoResp
    /\ db.status # "absent"
    /\ \E status \in Statuses, started \in BOOLEAN, at \in 0..(MaxClock + 1), d \in Durations :
          /\ (~started => at = 0)
          /\ db' = Record(status, started, at, d)
    /\ UNCHANGED <<vehicles, apiKey, est, opt, now, resp, plan, hospitals, checkpoints, calls>>

Tick ==
    /\ resp = NoResp
    /\ now < MaxClock
    /\ now' = now + 1
    /\ UNCHANGED <<vehicles, apiKey, est, opt, db, resp, plan, hospitals, checkpoints, calls>>

TrackTransport ==
    /\ resp = NoResp
    /\ resp' = TrackAnswer(db, now)
    /\ UNCHANGED <<vehicles, apiKey, est, opt, db, now, plan, hospitals, checkpoints, calls>>

GetActiveTransports ==
    /\ resp = NoResp
    /\ resp' = ListAnswer(db, now)
    /\ UNCHANGED <<vehicles, apiKey, est, opt, db, now, plan, hospitals, checkpoints, calls>>

MonitorActiveTransports ==
    /\ resp = NoResp
    /\ resp' = MonitorAnswer
    /\ UNCHANGED <<vehicles, apiKey, est, opt, db, now, plan, hospitals, checkpoints, calls>>

TrackerReturn ==
    /\ resp # NoResp
    /\ resp' = NoResp
    /\ UNCHANGED <<vehicles, apiKey, est, opt, db, now, plan, hospitals, checkpoints, calls>>

NextTracker ==
    \/ CreateTransportPlan \/ ExternalUpdate \/ Tick
    \/ TrackTransport \/ GetActiveTransports \/ MonitorActiveTransports \/ TrackerReturn

SpecTracker == InitTracker /\ [][NextTracker]_vars

--------------------------------------------------------------------------
(* Single-shipment planner: create_transport_plan and its helpers.  A      *)
(* hospital name is the sequence of its words; str.lower() and the         *)
(* substring test act on words.                                            *)

MaxPlanDelay == 1
DefaultUrgency == 50
DefaultMaxHours == 8
BufferMinutes == 30
HelicopterUrgency == 90
HelicopterBonus == 50
AmbulanceBonus == 30
ClosenessCap == 100
TimeRiskThreshold == 240
EfficiencyCap == 100

Max(a, b) == IF a >= b THEN a ELSE b

\* The words of the registries' location names
NameWords(name) ==
    CASE name = "City General Hospital" -> <<"City", "General", "Hospital">>
      [] name = "Metro Medical Center" -> <<"Metro", "Medical", "Center">>
      [] name = "Regional Trauma Center" -> <<"Regional", "Trauma", "Center">>
      [] name = "University Hospital" -> <<"University", "Hospital">>
      [] name = "Specialty Transplant Center" -> <<"Specialty", "Transplant", "Center">>
      [] name = "Highway Junction A" -> <<"Highway", "Junction", "A">>
      [] name = "Medical District Bridge" -> <<"Medical", "District", "Bridge">>
      [] name = "Airport Medical Hub" -> <<"Airport", "Medical", "Hub">>
      [] name = "Emergency Relay Station" -> <<"Emergency", "Relay", "Station">>
      [] OTHER -> <<name>>

\* str.lower() of one word
LowerWord(w) ==
    CASE w \in {"City", "CITY"} -> "city"
      [] w \in {"General", "GENERAL"} -> "general"
      [] w \in {"Hospital", "HOSPITAL"} -> "hospital"
      [] w \in {"Metro", "METRO"} -> "metro"
      [] w \in {"Medical", "MEDICAL"} -> "medical"
      [] w \in {"Center", "CENTER"} -> "center"
      [] w = "Regional" -> "regional"
      [] w = "Trauma" -> "trauma"
      [] w = "University" -> "university"
      [] w = "Specialty" -> "specialty"
      [] w = "Transplant" -> "transplant"
      [] w = "Mercy" -> "mercy"
      [] w = "Highway" -> "highway"
      [] w = "Junction" -> "junction"
      [] w = "A" -> "a"
      [] w = "District" -> "district"
      [] w = "Bridge" -> "bridge"
      [] w = "Airport" -> "airport"
      [] w = "Hub" -> "hub"
      [] w = "Emergency" -> "emergency"
      [] w = "Relay" -> "relay"
      [] w = "Station" -> "station"
      [] OTHER -> w

Lower(ws) == [k \in DOMAIN ws |-> LowerWord(ws[k])]

\* needle in hay, for strings: the empty needle is in every string
Contains(hay, needle) ==
    \E i \in 0..(Len(hay) - Len(needle)) :
        \A k \in DOMAIN needle : hay[i + k] = needle[k]

\* The hospital names a caller may pass: a full name, parts of names in any
\* letter case, a name of no location, part of a checkpoint's name, and the
\* empty string
HospitalQueries ==
    {<<"City", "General", "Hospital">>, <<"hospital">>, <<"METRO">>, <<"Mercy">>,
     <<"Airport">>, <<>>}

NoLocation == [none |-> TRUE]

\* A lookup that accepts the full name only.
FindHospitalExact(registry, hospital_name) ==
    IF \E k \in DOMAIN registry : NameWords(registry[k].name) = hospital_name
    THEN registry[CHOOSE k \in DOMAIN registry : NameWords(registry[k].name) = hospital_name]
    ELSE NoLocation

\* A lookup that keeps the last match of the registry.
FindHospitalLast(registry, hospital_name) ==
    LET hits == {k \in DOMAIN registry :
                    Contains(Lower(NameWords(registry[k].name)), Lower(hospital_name))}
    IN  IF hits = {} THEN NoLocation
        ELSE registry[CHOOSE k \in hits : \A j \in hits : k >= j]

\* _find_hospital: the first registry entry whose lowered name contains the
\* lowered argument, or None
FindHospital(registry, hospital_name) ==
    LET hits == {k \in DOMAIN registry :
                    Contains(Lower(NameWords(registry[k].name)), Lower(hospital_name))}
    IN  IF hits = {} THEN NoLocation
        ELSE registry[CHOOSE k \in hits : \A j \in hits : k <= j]

\* organ_data: a dict; a key may be missing
OrganDataPool ==
    {[id |-> "ORG_101"],
     [id |-> "ORG_102", urgency |-> 90],
     [id |-> "ORG_103", urgency |-> 91],
     [id |-> "ORG_104", urgency |-> 95, max_hours |-> 12]}

\* organ_data.get(key, default)
Get(d, key, default) == IF key \in DOMAIN d THEN d[key] ELSE default

\* A selection that ignores the available flag.
AllVehicles(fleet) == fleet

\* [v for v in self.vehicles if v.available]
AvailableVehicles(fleet) == SelectSeq(fleet, LAMBDA v : v.available)

\* The score of one vehicle, times 1000 (distances are in metres)
Score(vehicle, pickup_location, urgency) ==
    Max(0, ClosenessCap * 1000 - Geodesic(vehicle.current_location, pickup_location))
    + (IF urgency > HelicopterUrgency /\ vehicle.vehicle_type = "medical_helicopter"
       THEN HelicopterBonus * 1000
       ELSE IF vehicle.vehicle_type = "ambulance" THEN AmbulanceBonus * 1000 ELSE 0)
    + vehicle.speed_kmh * 100

\* A comparison that also replaces the best vehicle on an equal score.
BetterOrEqual(score, best_score) == score >= best_score

\* if score > best_score
Better(score, best_score) == score > best_score

\* The scoring loop of _select_best_vehicle from position k on
RECURSIVE SelectLoop(_, _, _, _, _, _)
SelectLoop(available, k, best_vehicle, best_score, pickup_location, urgency) ==
    IF k > Len(available) THEN best_vehicle
    ELSE LET score == Score(available[k], pickup_location, urgency)
         IN  IF Better(score, best_score)
             THEN SelectLoop(available, k + 1, available[k], score, pickup_location, urgency)
             ELSE SelectLoop(available, k + 1, best_vehicle, best_score, pickup_location, urgency)

\* _select_best_vehicle for a non-empty fleet
SelectBestVehicle(fleet, pickup_location, organ_data) ==
    LET available == AvailableVehicles(fleet)
    IN  IF available = <<>> THEN fleet[1]
        ELSE SelectLoop(available, 1, available[1], 0, pickup_location,
                        Get(organ_data, "urgency", DefaultUrgency))

\* A selection that reserves the chosen vehicle.
FleetAfterReservation(fleet, best_vehicle) ==
    [k \in DOMAIN fleet |->
        IF fleet[k] = best_vehicle THEN [fleet[k] EXCEPT !.available = FALSE] ELSE fleet[k]]

\* self.vehicles after _select_best_vehicle: the method assigns to no
\* vehicle and to no list
FleetAfterSelection(fleet, best_vehicle) == fleet

\* A checkpoint list that holds the whole registry.
GetRouteCheckpointsAll(registry, pickup, delivery) == registry

\* _get_route_checkpoints: pickup_dist + delivery_dist <= total_route_dist * 1.2
GetRouteCheckpoints(registry, pickup, delivery) ==
    SelectSeq(registry,
              LAMBDA c : (Geodesic(pickup, c) + Geodesic(delivery, c)) * 10
                         <= Geodesic(pickup, delivery) * 12)


\* The transport_plan dict of create_transport_plan.  t1, t2 and t3 are the
\* three reads of datetime.now() (lines 535, 536 and 551).
TransportPlan(organ_data, pickup_loc, delivery_loc, e, best_vehicle, cps, t1, t2, t3) ==
    [organ_id |-> organ_data.id,
     route |-> [pickup |-> pickup_loc, delivery |-> delivery_loc,
                distance_km |-> e.distance,
                estimated_duration_minutes |-> e.duration,
                checkpoints |-> cps],
     vehicle |-> [id |-> best_vehicle.vehicle_id, type |-> best_vehicle.vehicle_type,
                  speed_kmh |-> best_vehicle.speed_kmh],
     schedule |-> [pickup_time |-> t1,
                   estimated_delivery |-> t2 + e.duration,
                   max_transport_time_hours |-> Get(organ_data, "max_hours", DefaultMaxHours),
                   buffer_time_minutes |-> BufferMinutes],
     monitoring |-> [temperature_target |-> 4, gps_tracking |-> TRUE,
                     real_time_updates |-> TRUE],
     created_at |-> t3,
     status |-> "planned"]

\* generate_route_report; efficiency_score is in tenths
RouteReport(transport_plan) ==
    LET minutes == transport_plan.route.estimated_duration_minutes
    IN  [summary |-> [organ_id |-> transport_plan.organ_id,
                      total_distance |-> transport_plan.route.distance_km,
                      total_time |-> minutes,
                      vehicle_type |-> transport_plan.vehicle.type,
                      efficiency_score |-> Min(EfficiencyCap * 10, EfficiencyCap * 10 - minutes)],
         risk_assessment |-> [time_risk |-> IF minutes < TimeRiskThreshold THEN "Low" ELSE "Medium",
                              weather_risk |-> "Low",
                              traffic_risk |-> "Medium",
                              overall_risk |-> "Low"]]

\* What the Directions API may answer to the planner's one call
PlanResponses ==
    {[metres |-> 0, seconds |-> 0], [metres |-> 5300, seconds |-> 500],
     [metres |-> 320000, seconds |-> 14400], [metres |-> 1200000, seconds |-> 61200]}

PlanOutcomes(key) ==
    IF key
    THEN {<<"ok", r>> : r \in PlanResponses}
         \cup {<<o, [metres |-> 0, seconds |-> 0]>> : o \in {"timeout", "http_error"}}
    ELSE {<<"no_key", [metres |-> 0, seconds |-> 0]>>}

\* create_transport_plan: the call's record when it ends
PlanCall(fleet, key, registry, cps, organ_data, pickup, delivery, o, t1, t2, t3) ==
    LET pickup_loc == FindHospital(registry, pickup)
        delivery_loc == FindHospital(registry, delivery)
        base == [pc |-> "done", organ_data |-> organ_data, pickup_hospital |-> pickup,
                 delivery_hospital |-> delivery, provider |-> o[1],
                 pickup_loc |-> pickup_loc, delivery_loc |-> delivery_loc,
                 est_calls |-> 0, best_vehicle |-> NoResult, reads |-> <<>>,
                 result |-> NoResult, report |-> NoResult]
    IN  IF pickup_loc = NoLocation \/ delivery_loc = NoLocation
        THEN [base EXCEPT !.result = ErrorResult("ValueError")]
        ELSE IF fleet = <<>>
        THEN [base EXCEPT !.est_calls = 1, !.result = ErrorResult("IndexError")]
        ELSE LET e == CalculateDistanceAndTime(key, pickup_loc, delivery_loc, "driving",
                                               o[1], o[2])
                 best_vehicle == SelectBestVehicle(fleet, pickup_loc, organ_data)
             IN  [base EXCEPT !.est_calls = 1, !.best_vehicle = best_vehicle,
                              !.reads = <<t1, t2, t3>>,
                              !.result = TransportPlan(organ_data, pickup_loc, delivery_loc,
                                                       e, best_vehicle,
                                                       GetRouteCheckpoints(cps, pickup_loc,
                                                                           delivery_loc),
                                                       t1, t2, t3)]

\* The fleets the planner may find: the registry's first vehicles, or AMB001
\* with a second ambulance stationed at the same hospital, each with any
\* available flags (the flags are toggled by the external fleet owner).
TwinAmbulance == TransportVehicle("AMB003", "ambulance", MetroMedical, 80)

BaseFleets ==
    {SubSeq(FleetRegistry, 1, n) : n \in 0..MaxFleet} \cup {<<FleetRegistry[2], TwinAmbulance>>}

Flagged(base) ==
    {[i \in DOMAIN base |-> [base[i] EXCEPT !.available = f[i]]] : f \in [DOMAIN base -> BOOLEAN]}

InitPlanner ==
    /\ vehicles \in UNION {Flagged(base) : base \in BaseFleets}
    /\ apiKey \in BOOLEAN
    /\ est = EstIdle
    /\ opt = OptIdle
    /\ db = NoTransport
    /\ now = 0
    /\ resp = NoResp
    /\ plan = PlanIdle
    /\ hospitals = HospitalRegistry
    /\ checkpoints = CheckpointRegistry
    /\ calls = NoCalls

\* create_transport_plan.  The clock may advance between its reads.
EngineCreateTransportPlan ==
    /\ plan.pc = "idle"
    /\ \E organ_data \in OrganDataPool, pickup \in HospitalQueries,
          delivery \in HospitalQueries, o \in PlanOutcomes(apiKey),
          d1 \in 0..MaxPlanDelay, d2 \in 0..MaxPlanDelay :
          LET call == PlanCall(vehicles, apiKey, hospitals, checkpoints, organ_data,
                               pickup, delivery, o, now, now + d1, now + d1 + d2)
          IN  /\ now + d1 + d2 <= MaxClock
              /\ plan' = call
              /\ now' = IF call.reads = <<>> THEN now ELSE call.reads[3]
              /\ vehicles' = IF call.best_vehicle = NoResult THEN vehicles
                             ELSE FleetAfterSelection(vehicles, call.best_vehicle)
    /\ UNCHANGED <<apiKey, est, opt, db, resp, hospitals, checkpoints, calls>>

\* generate_route_report for the plan just created
GenerateRouteReport ==
    /\ plan.pc = "done"
    /\ "status" \in DOMAIN plan.result
    /\ plan' = [plan EXCEPT !.pc = "reported", !.report = RouteReport(plan.result)]
    /\ UNCHANGED <<vehicles, apiKey, est, opt, db, now, resp, hospitals, checkpoints, calls>>

PlanReturn ==
    /\ plan.pc \in {"done", "reported"}
    /\ plan' = PlanIdle
    /\ UNCHANGED <<vehicles, apiKey, est, opt, db, now, resp, hospitals, checkpoints, calls>>

NextPlanner == EngineCreateTransportPlan \/ GenerateRouteReport \/ PlanReturn

SpecPlanner == InitPlanner /\ [][NextPlanner]_vars

--------------------------------------------------------------------------
(* The engine as one object: planning, reporting, optimizing and           *)
(* monitoring calls, one at a time, on the same fleet and registries.      *)

EngineFleetSize == 2

EngineIdle == opt.pc = "idle" /\ plan.pc = "idle" /\ resp = NoResp

InitEngine ==
    /\ vehicles \in Flagged(SubSeq(FleetRegistry, 1, EngineFleetSize))
    /\ apiKey = FALSE
    /\ est = EstIdle
    /\ opt = OptIdle
    /\ db = NoTransport
    /\ now = MaxClock - 1
    /\ resp = NoResp
    /\ plan = PlanIdle
    /\ hospitals = HospitalRegistry
    /\ checkpoints = CheckpointRegistry
    /\ calls = NoCalls

EnginePlan == EngineIdle /\ EngineCreateTransportPlan

EngineOptimize == EngineIdle /\ Optimize

EngineMonitor == EngineIdle /\ MonitorActiveTransports

NextEngine ==
    \/ EnginePlan \/ GenerateRouteReport \/ PlanReturn
    \/ EngineOptimize \/ OptimizeMatrix \/ SolveVRPFallback \/ SolveVRPSolution \/ OptimizeReturn
    \/ EngineMonitor \/ TrackerReturn

SpecEngine == InitEngine /\ [][NextEngine]_vars

--------------------------------------------------------------------------
(* Two callers planning on the same engine.  A call resolves its names and *)
(* waits for the estimator (lines 495-502); the other caller may run       *)
(* meanwhile.  It then selects a vehicle from the fleet as it is at that    *)
(* moment and assembles its plan (lines 505-556).  A caller keeps its      *)
(* plan until it lets go of it.                                            *)

\* The delivery hospital of the two callers
SharedDelivery == <<"METRO">>

InitTwoPlans ==
    /\ vehicles \in UNION {Flagged(base) : base \in BaseFleets}
    /\ apiKey = FALSE
    /\ est = EstIdle
    /\ opt = OptIdle
    /\ db = NoTransport
    /\ now = 0
    /\ resp = NoResp
    /\ plan = PlanIdle
    /\ hospitals = HospitalRegistry
    /\ checkpoints = CheckpointRegistry
    /\ calls = NoCalls

\* create_transport_plan up to the estimator call
PlanBegin(c) ==
    /\ calls[c].pc = "idle"
    /\ \E organ_data \in OrganDataPool, pickup \in HospitalQueries, o \in PlanOutcomes(apiKey) :
          LET call == PlanCall(vehicles, apiKey, hospitals, checkpoints, organ_data,
                               pickup, SharedDelivery, o, now, now, now)
          IN  calls' = [calls EXCEPT ![c] =
                          IF call.result = ErrorResult("ValueError") THEN call
                          ELSE [pc |-> "estimating", organ_data |-> organ_data,
                                pickup_hospital |-> pickup, provider |-> o]]
    /\ UNCHANGED <<vehicles, apiKey, est, opt, db, now, resp, plan, hospitals, checkpoints>>

\* create_transport_plan from the vehicle selection on
PlanFinish(c) ==
    /\ calls[c].pc = "estimating"
    /\ LET call == PlanCall(vehicles, apiKey, hospitals, checkpoints, calls[c].organ_data,
                            calls[c].pickup_hospital, SharedDelivery, calls[c].provider,
                            now, now, now)
       IN  /\ calls' = [calls EXCEPT ![c] = call]
           /\ vehicles' = IF call.best_vehicle = NoResult THEN vehicles
                          ELSE FleetAfterSelection(vehicles, call.best_vehicle)
    /\ UNCHANGED <<apiKey, est, opt, db, now, resp, plan, hospitals, checkpoints>>

\* The caller lets go of its plan (or of its error)
PlanRelease(c) ==
    /\ calls[c].pc = "done"
    /\ calls' = [calls EXCEPT ![c] = PlanIdle]
    /\ UNCHANGED <<vehicles, apiKey, est, opt, db, now, resp, plan, hospitals, checkpoints>>

NextTwoPlans == \E c \in Callers : PlanBegin(c) \/ PlanFinish(c) \/ PlanRelease(c)

SpecTwoPlans == InitTwoPlans /\ [][NextTwoPlans]_vars

--------------------------------------------------------------------------
(* Properties of the optimizer (checked under Spec) *)

OptDone == opt.pc = "done"

HasRoutes == OptDone /\ "routes" \in DOMAIN opt.result

\* How many times an organ id is listed over all routes of a result
Listed(routes, id) ==
    SumSeq([k \in DOMAIN routes |->
              Cardinality({j \in DOMAIN routes[k].organs_transported :
                             routes[k].organs_transported[j] = id})])

\* C1: organ conservation.  For a non-empty batch with distinct organ ids
\* and a fleet of at least one vehicle, the returned routes list every
\* requested organ id exactly once, on the solver path and on the fallback
\* path.
C1_OrganConservation ==
    (HasRoutes /\ opt.reqs # <<>> /\ Len(vehicles) >= 1) =>
        \A p \in DOMAIN opt.reqs : Listed(opt.result.routes, opt.reqs[p].organ_id) = 1

\* C1 witness: the solver path, every window call on a node of the location
\* list and every pickup location an entry of the list, with an organ id
\* listed in two routes.
C1_DuplicatedOnSolverPath ==
    /\ HasRoutes
    /\ opt.outcome = "solution"
    /\ OutOfRange(opt.reqs, Len(opt.locations)) = {}
    /\ \A p \in DOMAIN opt.reqs : opt.reqs[p].pickup_location \in Range(opt.locations)
    /\ \E p \in DOMAIN opt.reqs : Listed(opt.result.routes, opt.reqs[p].organ_id) >= 2

\* C2: fleet bound.  The number of routes, and vehicles_used when it is
\* reported, is at most the fleet size and at most the batch size.
C2_FleetBound ==
    HasRoutes =>
        /\ Len(opt.result.routes) <= Len(vehicles)
        /\ Len(opt.result.routes) <= Len(opt.reqs)
        /\ "vehicles_used" \in DOMAIN opt.result =>
              /\ opt.result.vehicles_used <= Len(vehicles)
              /\ opt.result.vehicles_used <= Len(opt.reqs)

\* C2 witness: a solver result that uses the whole fleet for a batch larger
\* than the fleet.
C2_Witness ==
    /\ HasRoutes
    /\ opt.outcome = "solution"
    /\ Len(opt.reqs) > Len(vehicles)
    /\ Len(opt.result.routes) = Len(vehicles)
    /\ Len(vehicles) >= 2

\* C3: within one result the vehicles of the routes are pairwise distinct
\* entries of the fleet.
C3_DistinctVehicles ==
    HasRoutes =>
        /\ \A i, j \in DOMAIN opt.result.routes :
              i # j => opt.result.routes[i].vehicle # opt.result.routes[j].vehicle
        /\ \A i \in DOMAIN opt.result.routes :
              \E v \in DOMAIN vehicles : opt.result.routes[i].vehicle = vehicles[v]

\* C3 witness: a fallback result with several routes for a batch larger
\* than the fleet.
C3_Witness ==
    /\ HasRoutes
    /\ opt.outcome = "no_solution"
    /\ Len(opt.result.routes) >= 2
    /\ Len(opt.reqs) > Len(vehicles)

\* The node of a location: the entry of the location list with its coordinates
NodeOf(loc) == CHOOSE k \in DOMAIN opt.locations : LocKey(opt.locations[k]) = LocKey(loc)

C6_EmptyBatch ==
    (OptDone /\ opt.reqs = <<>>) =>
        /\ opt.result = [routes |-> <<>>, total_time |-> 0, total_distance |-> 0]
        /\ opt.matrix = <<>>
        /\ opt.est_calls = 0
        /\ opt.solver_runs = 0
        /\ opt.outcome = "none"

\* C6 witness: an empty batch answered while the fleet has vehicles.
C6_Witness == OptDone /\ opt.reqs = <<>> /\ Len(vehicles) >= 1

\* C20: fallback-direct routing.  On the fallback path there is one route per
\* request at a batch position within the fleet size, in batch order; the
\* route of position i has fleet vehicle i, the locations [pickup, delivery],
\* the organs [organ id], and the estimator's distance and time for that
\* pair with the vehicle's type as mode.
C20_FallbackDirect ==
    (OptDone /\ opt.outcome \in {"raise_build", "no_solution", "raise_extract"}) =>
        /\ "routes" \in DOMAIN opt.result
        /\ Len(opt.result.routes) = Min(Len(vehicles), Len(opt.reqs))
        /\ \A i \in DOMAIN opt.result.routes :
              LET route == opt.result.routes[i]
                  request == opt.reqs[i]
                  e == CalculateDistanceAndTime(apiKey, request.pickup_location,
                                                request.delivery_location,
                                                vehicles[i].vehicle_type, opt.provider,
                                                ProviderRoad(request.pickup_location,
                                                             request.delivery_location))
              IN  /\ route.vehicle = vehicles[i]
                  /\ route.locations = <<request.pickup_location, request.delivery_location>>
                  /\ route.organs_transported = <<request.organ_id>>
                  /\ route.distance_km = e.distance
                  /\ route.time_minutes = e.duration

\* C20 witness: a fallback result for 3 requests and a fleet of 1 vehicle,
\* with a single route, for the first request.
C20_Witness ==
    /\ OptDone
    /\ opt.outcome = "no_solution"
    /\ Len(vehicles) = 1
    /\ Len(opt.reqs) = 3
    /\ Len(opt.result.routes) = 1
    /\ opt.result.routes[1].organs_transported = <<opt.reqs[1].organ_id>>

\* The pickup and delivery locations of the batch in the order optimize()
\* meets them: pickup before delivery, requests in batch order
Met == [k \in 1..(2 * Len(opt.reqs)) |->
          IF k % 2 = 1 THEN opt.reqs[(k + 1) \div 2].pickup_location
          ELSE opt.reqs[k \div 2].delivery_location]

\* The first position in Met with the coordinates p
FirstMet(p) == CHOOSE k \in DOMAIN Met : Met[k].pos = p /\ \A m \in 1..(k - 1) : Met[m].pos # p

ListBuilt == opt.pc \in {"matrix", "solve", "done"} /\ opt.reqs # <<>>

\* C21: the location list of a non-empty batch holds every distinct
\* coordinate of the batch's pickup and delivery locations exactly once, in
\* order of first occurrence; its length is between 1 and 2N.
C21_LocationList ==
    ListBuilt =>
        /\ \A i, j \in DOMAIN opt.locations :
              i # j => opt.locations[i].pos # opt.locations[j].pos
        /\ \A k \in DOMAIN Met : \E i \in DOMAIN opt.locations : opt.locations[i].pos = Met[k].pos
        /\ \A i \in DOMAIN opt.locations : opt.locations[i] = Met[FirstMet(opt.locations[i].pos)]
        /\ \A i, j \in DOMAIN opt.locations :
              i < j => FirstMet(opt.locations[i].pos) < FirstMet(opt.locations[j].pos)
        /\ 1 <= Len(opt.locations)
        /\ Len(opt.locations) <= 2 * Len(opt.reqs)

\* C21 witness: a batch in which two different location records share their
\* coordinates; the list holds the record met first and is shorter than 2N.
C21_Witness ==
    /\ ListBuilt
    /\ Len(opt.locations) < 2 * Len(opt.reqs)
    /\ \E k \in DOMAIN Met :
          /\ Met[k] \notin Range(opt.locations)
          /\ \E i \in DOMAIN opt.locations : opt.locations[i].pos = Met[k].pos


MatrixBuilt == opt.pc \in {"solve", "done"} /\ opt.reqs # <<>> /\ opt.matrix # <<>>

\* C22: the duration matrix is |L| x |L|, every entry a non-negative number
\* of minutes, 0 on the diagonal, and symmetric, whatever the provider did
\* on each request.
C22_MatrixSymmetric ==
    MatrixBuilt =>
        LET n == Len(opt.locations)
        IN  /\ DOMAIN opt.matrix = 1..n
            /\ \A i \in 1..n : DOMAIN opt.matrix[i] = 1..n
            /\ \A i, j \in 1..n : opt.matrix[i][j] \in Nat
            /\ \A i \in 1..n : opt.matrix[i][i] = 0
            /\ \A i, j \in 1..n : opt.matrix[i][j] = opt.matrix[j][i]

\* C22 witness: the provider answered the request for a pair and timed out
\* on the request for the reversed pair, and the two entries differ.
C22_Asymmetric ==
    /\ MatrixBuilt
    /\ apiKey
    /\ opt.provider = "flaky"
    /\ \E i, j \in DOMAIN opt.matrix : i < j /\ opt.matrix[i][j] # opt.matrix[j][i]


\* The routes of a result whose visited locations contain the location loc
RoutesThrough(loc) ==
    {k \in DOMAIN opt.result.routes : loc \in Range(opt.result.routes[k].locations)}

\* C23: on the solver path a route lists a request's organ id exactly when
\* its visited locations contain the request's pickup location, and every
\* request has exactly one such route.
C23_OrganAttribution ==
    (OptDone /\ opt.outcome = "solution") =>
        /\ \A k \in DOMAIN opt.result.routes : \A p \in DOMAIN opt.reqs :
              (opt.reqs[p].organ_id \in Range(opt.result.routes[k].organs_transported))
                  <=> (k \in RoutesThrough(opt.reqs[p].pickup_location))
        /\ \A p \in DOMAIN opt.reqs :
              Cardinality(RoutesThrough(opt.reqs[p].pickup_location)) = 1

\* C23 witness: a solver result with two routes; both start at the depot,
\* the first request's pickup location, and both list its organ id.
C23_DepotOnEveryRoute ==
    /\ OptDone
    /\ opt.outcome = "solution"
    /\ Len(opt.result.routes) >= 2
    /\ RoutesThrough(opt.reqs[1].pickup_location) = DOMAIN opt.result.routes
    /\ \A k \in DOMAIN opt.result.routes :
          opt.reqs[1].organ_id \in Range(opt.result.routes[k].organs_transported)


\* The sum of a field over the routes of the result
RECURSIVE TotalOf(_, _)
TotalOf(field, k) ==
    IF k = 0 THEN 0 ELSE TotalOf(field, k - 1) + opt.result.routes[k][field]

\* C27: in a result of the solver path or of the fallback path the total
\* distance is the sum of the routes' distances, the total time the sum of
\* the routes' times, and vehicles_used the number of routes.
C27_Totals ==
    (HasRoutes /\ opt.outcome # "none") =>
        /\ opt.result.total_distance_km = TotalOf("distance_km", Len(opt.result.routes))
        /\ opt.result.total_time_minutes = TotalOf("time_minutes", Len(opt.result.routes))
        /\ opt.result.vehicles_used = Len(opt.result.routes)

\* C27 witness: a solver result with two routes of positive time.
C27_Witness ==
    /\ HasRoutes
    /\ opt.outcome = "solution"
    /\ Len(opt.result.routes) = 2
    /\ \A k \in DOMAIN opt.result.routes : opt.result.routes[k].time_minutes > 0


--------------------------------------------------------------------------
(* Properties of the estimator (checked under SpecEstimator) *)

EstDone == est.pc = "done"

\* The provider gave no usable answer: no key, or any outcome but success
Unreachable == EstDone /\ (~apiKey \/ est.outcome # "ok")

\* The documented speed table, km/h
DocumentedSpeed(mode) ==
    IF mode = "medical_helicopter" THEN 200
    ELSE IF mode = "medical_van" THEN 50
    ELSE 60

\* C7: the estimator never propagates a provider failure: every failing
\* outcome yields the geodesic pair of the same origin, destination and
\* mode, a successful response yields the provider-derived pair.
C7_EstimatorAbsorbsFailures ==
    EstDone =>
        /\ est.result.exc = "none"
        /\ Unreachable =>
              est.result = CalculateGeodesicRoute(est.origin, est.destination, est.mode)
        /\ ~Unreachable => est.result = AdjustForVehicle(est.mode, est.response)

\* C7 witness: a configured provider answered with an HTTP error for two
\* locations that lie apart.
C7_Witness ==
    /\ EstDone
    /\ apiKey
    /\ est.outcome = "http_error"
    /\ est.result.distance > 0

\* C8 as stated: on the fallback path the distance is the geodesic distance
\* and durationMin = distanceKm / speed(mode) * 60 exactly.
C8_FallbackDurationExact ==
    Unreachable =>
        /\ est.result.distance = Geodesic(est.origin, est.destination)
        /\ est.result.duration * DocumentedSpeed(est.mode) * 1000 = est.result.distance * 60

\* C8 amended: the duration is distanceKm / speed(mode) * 60 truncated to
\* whole minutes.
C8_FallbackDurationTruncated ==
    Unreachable =>
        /\ est.result.distance = Geodesic(est.origin, est.destination)
        /\ est.result.duration * DocumentedSpeed(est.mode) * 1000 <= est.result.distance * 60
        /\ est.result.distance * 60 < (est.result.duration + 1) * DocumentedSpeed(est.mode) * 1000

\* C8 witness: a fallback estimate for an unknown mode whose exact duration
\* is not a whole number of minutes.
C8_Witness ==
    /\ Unreachable
    /\ est.mode = "cargo_drone"
    /\ (est.result.distance * 60) % (60 * 1000) # 0

\* The provider answered the call
Answered == EstDone /\ apiKey /\ est.outcome = "ok"

\* d is q truncated to a whole number, for the fraction q = num / den
TruncatedTo(d, num, den) == d * den <= num /\ num < (d + 1) * den

\* C25: on a provider answer the duration is the provider's minutes times
\* 0.4 for medical_helicopter, times 0.7 for ambulance and unchanged for any
\* other mode, truncated to whole minutes; the distance is times 0.7 for
\* medical_helicopter and unchanged otherwise.
C25_ModeMultipliers ==
    Answered =>
        LET r == est.response
        IN  CASE est.mode = "medical_helicopter" ->
                    /\ est.result.distance * 10 = r.metres * 7
                    /\ TruncatedTo(est.result.duration, r.seconds * 4, 600)
              [] est.mode = "ambulance" ->
                    /\ est.result.distance = r.metres
                    /\ TruncatedTo(est.result.duration, r.seconds * 7, 600)
              [] OTHER ->
                    /\ est.result.distance = r.metres
                    /\ TruncatedTo(est.result.duration, r.seconds, 60)

\* C25 witness: the provider answers 5400 s (90 minutes) for an ambulance
\* and the estimator returns 62 minutes, not 90 x 0.7 = 63.
C25_AmbulanceMinuteShort ==
    /\ Answered
    /\ est.mode = "ambulance"
    /\ est.response.seconds = 5400
    /\ est.result.duration = 62


--------------------------------------------------------------------------
(* Properties of the tracking handlers (checked under SpecTracker) *)

Reported == {resp.items[k] : k \in DOMAIN resp.items}

\* C9: an in_progress transport is never reported above 95; 100 is reported
\* only for a delivered transport, and tracking a delivered transport
\* yields 100.
C9_ProgressCap ==
    /\ \A it \in Reported :
          /\ (it.status = "in_progress" /\ it.has_progress) => it.progress <= 95
          /\ (it.has_progress /\ it.progress = 100) => it.status = "delivered"
    /\ (resp.kind = "tracking" /\ db.status = "delivered") =>
          \E it \in Reported : it.progress = 100

\* C9 witness: tracking a delivered transport answers with progress 0.
C9_DeliveredReportsZero ==
    /\ resp.kind = "tracking"
    /\ db.status = "delivered"
    /\ \A it \in Reported : it.progress = 0

\* C11: while the stored status is planned, tracking and the listing report
\* progress 0, whatever the clock, the start time and the estimated duration.
C11_PlannedReportsZero ==
    /\ \A it \in Reported : it.status = "planned" => (it.has_progress /\ it.progress = 0)
    /\ (db.status = "planned" /\ resp.kind \in {"tracking", "listing"}) =>
          Reported = {Item("planned", TRUE, 0)}

\* C11 witness: a planned record with a start time in the past and another
\* duration than the planner's is tracked after the clock has advanced.
C11_Witness ==
    /\ resp.kind = "tracking"
    /\ db.status = "planned"
    /\ db.started
    /\ now > db.started_at
    /\ db.estimated_duration = 2
    /\ Reported # {}

\* C10: every reported progress value lies in [0, 100].
C10_ProgressInRange ==
    \A it \in Reported : it.has_progress => (0 <= it.progress /\ it.progress <= 100)

\* C10 witness: the listing reports a negative progress for an in_progress
\* transport whose started_at lies ahead of the clock.
C10_NegativeListed ==
    /\ resp.kind = "listing"
    /\ db.status = "in_progress"
    /\ db.started_at > now
    /\ \E it \in Reported : it.has_progress /\ it.progress < 0

\* The stored transport is in progress with a start time and a positive
\* estimated duration
Running == db.status = "in_progress" /\ db.started /\ db.estimated_duration > 0

\* elapsed / duration x 100 rounded down, and rounded toward zero
FloorPercent == ((now - db.started_at) * 100) \div db.estimated_duration

TruncPercent ==
    IF now >= db.started_at THEN FloorPercent
    ELSE -(((db.started_at - now) * 100) \div db.estimated_duration)

Capped(p) == IF p <= 95 THEN p ELSE 95

\* Between two states in which the same running record is stored and the
\* clock has not gone back, the progress track() derives does not decrease
\* and stays at 95 once it is 95.
NeverDecreases ==
    (Running /\ db' = db /\ now' >= now) =>
        /\ TrackProgress(db', now') >= TrackProgress(db, now)
        /\ TrackProgress(db, now) = 95 => TrackProgress(db', now') = 95

\* C30 as stated: the progress track() reports for a running transport is
\* min(95, floor(elapsed / duration x 100)), never decreases over successive
\* calls and stays at 95 once it reaches 95.
C30_ProgressFloor ==
    /\ []((resp.kind = "tracking" /\ Running) =>
             \A it \in Reported : it.progress = Capped(FloorPercent))
    /\ [][NeverDecreases]_vars

\* C30 amended: the reported progress is min(95, elapsed / duration x 100
\* rounded toward zero), which is the floor unless the start time lies ahead
\* of the clock; it never decreases and stays at 95 once it reaches 95.
C30_ProgressTruncated ==
    /\ []((resp.kind = "tracking" /\ Running) =>
             \A it \in Reported : it.progress = Capped(TruncPercent))
    /\ [][NeverDecreases]_vars

\* C30 witness: a running transport is tracked after more than its estimated
\* duration has elapsed and is reported at 95.
C30_Witness ==
    /\ resp.kind = "tracking"
    /\ Running
    /\ now - db.started_at > db.estimated_duration
    /\ Reported = {Item("in_progress", TRUE, 95)}


--------------------------------------------------------------------------
(* Properties of the planner and the report (checked under SpecPlanner) *)

PlanDone == plan.pc \in {"done", "reported"}

HasPlan == PlanDone /\ "status" \in DOMAIN plan.result

PlanFailed == PlanDone /\ "error" \in DOMAIN plan.result

Reported2 == plan.pc = "reported"

\* A name resolves when some registry name contains it, case ignored
Resolvable(name) ==
    \E k \in DOMAIN hospitals : Contains(Lower(NameWords(hospitals[k].name)), Lower(name))

WellFormed == Resolvable(plan.pickup_hospital) /\ Resolvable(plan.delivery_hospital)
              /\ vehicles # <<>>

\* C12: the efficiency score (in tenths) is min(100, 100 - minutes / 10) and
\* lies in [0, 100] for every plan duration.
C12_EfficiencyScore ==
    Reported2 =>
        LET minutes == plan.result.route.estimated_duration_minutes
            score == plan.report.summary.efficiency_score
        IN  /\ score = (IF 1000 - minutes <= 1000 THEN 1000 - minutes ELSE 1000)
            /\ 0 <= score
            /\ score <= 1000

\* C12 witness: a report for a plan of more than 1000 minutes carries a
\* negative efficiency score.
C12_NegativeScore ==
    /\ Reported2
    /\ plan.result.route.estimated_duration_minutes > 1000
    /\ plan.report.summary.efficiency_score < 0

\* C13: a call fails exactly on an input error (an unresolved name or an
\* empty fleet), and then ends before any estimator call or vehicle
\* selection, with no plan.
C13_InputErrors ==
    PlanDone =>
        /\ PlanFailed <=> ~WellFormed
        /\ PlanFailed => (plan.est_calls = 0 /\ plan.best_vehicle = NoResult
                          /\ "status" \notin DOMAIN plan.result)

\* C13 witness: with an empty fleet and two resolvable names the call ends
\* in an IndexError after the estimator has been called.
C13_EstimatorCalledBeforeError ==
    /\ PlanFailed
    /\ vehicles = <<>>
    /\ plan.est_calls = 1
    /\ plan.result = [error |-> "IndexError"]

\* C14: for well-formed input the call returns a complete plan, whatever the
\* provider does and whatever the available flags are.
C14_AlwaysPlans ==
    (PlanDone /\ WellFormed) =>
        {"organ_id", "route", "vehicle", "schedule", "monitoring"} \subseteq DOMAIN plan.result

\* C14 witness: a plan made from a partial hospital name while the provider
\* timed out and no vehicle was available.
C14_Witness ==
    /\ HasPlan
    /\ plan.provider = "timeout"
    /\ plan.pickup_hospital = <<"hospital">>
    /\ \A k \in DOMAIN vehicles : ~vehicles[k].available

\* The score as documented, times 1000
ClaimedScore(v, pickup, urgency) ==
    (IF Geodesic(v.current_location, pickup) >= 100000 THEN 0
     ELSE 100000 - Geodesic(v.current_location, pickup))
    + (IF urgency > 90 /\ v.vehicle_type = "medical_helicopter" THEN 50000
       ELSE IF v.vehicle_type = "ambulance" THEN 30000 ELSE 0)
    + v.speed_kmh * 100

PlanUrgency == IF "urgency" \in DOMAIN plan.organ_data THEN plan.organ_data.urgency ELSE 50

Candidates == {k \in DOMAIN vehicles : vehicles[k].available}

TopScored ==
    {k \in Candidates :
        \A j \in Candidates :
            ClaimedScore(vehicles[k], plan.pickup_loc, PlanUrgency)
                >= ClaimedScore(vehicles[j], plan.pickup_loc, PlanUrgency)}

\* C15: when some vehicle is available, the selected vehicle is the available
\* vehicle of maximal score that comes first in the fleet.
C15_SelectorMaximal ==
    (HasPlan /\ Candidates # {}) =>
        \E k \in TopScored :
            /\ \A j \in TopScored : k <= j
            /\ plan.best_vehicle = vehicles[k]

\* C15 witness: two available vehicles share the maximal score and the
\* earlier one is selected.
C15_Witness ==
    /\ HasPlan
    /\ Cardinality(TopScored) >= 2
    /\ \E k \in TopScored : plan.best_vehicle = vehicles[k]

\* C16: with no available vehicle in a non-empty fleet the call does not fail
\* and selects the first fleet entry; with an available vehicle the selected
\* one is available.
C16_NoAvailableDefault ==
    /\ (PlanDone /\ WellFormed /\ Candidates = {}) =>
          (HasPlan /\ plan.best_vehicle = vehicles[1])
    /\ (HasPlan /\ Candidates # {}) =>
          (plan.best_vehicle.available
           /\ \E k \in DOMAIN vehicles : plan.best_vehicle = vehicles[k])

\* C16 witness: a plan for a fleet of several vehicles, none available.
C16_Witness ==
    /\ HasPlan
    /\ Len(vehicles) >= 2
    /\ Candidates = {}
    /\ ~plan.best_vehicle.available

\* C17: a plan has status planned, a buffer of 30 minutes, the organ data's
\* maximal hours or 8, a pickup time equal to the clock at planning and an
\* estimated delivery of exactly pickup time plus duration.
C17_Schedule ==
    HasPlan =>
        /\ plan.result.status = "planned"
        /\ plan.result.schedule.buffer_time_minutes = 30
        /\ plan.result.schedule.max_transport_time_hours
              = (IF "max_hours" \in DOMAIN plan.organ_data THEN plan.organ_data.max_hours ELSE 8)
        /\ plan.result.schedule.pickup_time = plan.reads[1]
        /\ plan.result.schedule.estimated_delivery
              = plan.result.schedule.pickup_time
                + plan.result.route.estimated_duration_minutes

\* C17 witness: the clock advanced between the two reads of the schedule and
\* the estimated delivery lies after pickup time plus duration.
C17_LateDelivery ==
    /\ HasPlan
    /\ plan.reads[2] > plan.reads[1]
    /\ plan.result.schedule.estimated_delivery
          > plan.result.schedule.pickup_time + plan.result.route.estimated_duration_minutes

RiskRank(r) == CASE r = "Low" -> 1 [] r = "Medium" -> 2 [] r = "High" -> 3

\* C18: time risk is Low below 240 minutes and Medium otherwise, and the
\* overall risk is the maximum of the time, weather and traffic risks.
C18_RiskAssessment ==
    Reported2 =>
        LET risk == plan.report.risk_assessment
            minutes == plan.result.route.estimated_duration_minutes
        IN  /\ risk.time_risk = (IF minutes < 240 THEN "Low" ELSE "Medium")
            /\ \A c \in {risk.time_risk, risk.weather_risk, risk.traffic_risk} :
                  RiskRank(risk.overall_risk) >= RiskRank(c)
            /\ risk.overall_risk \in {risk.time_risk, risk.weather_risk, risk.traffic_risk}

\* C18 witness: a report of a plan of 240 minutes or more says overall risk
\* Low beside a Medium time risk and a Medium traffic risk.
C18_OverallBelowComponents ==
    /\ Reported2
    /\ plan.result.route.estimated_duration_minutes >= 240
    /\ plan.report.risk_assessment.time_risk = "Medium"
    /\ plan.report.risk_assessment.traffic_risk = "Medium"
    /\ plan.report.risk_assessment.overall_risk = "Low"

\* The detour through checkpoint c is at most 1.2 times the direct distance
\* (positions are in units of 100 m)
Along(c) ==
    10 * (Abs(plan.pickup_loc.pos - c.pos) + Abs(plan.delivery_loc.pos - c.pos))
        <= 12 * Abs(plan.pickup_loc.pos - plan.delivery_loc.pos)

\* C24: the plan's checkpoints are exactly the registry checkpoints c with
\* distance(pickup, c) + distance(delivery, c) <= 1.2 x distance(pickup,
\* delivery), in registry order; when pickup and delivery coincide only a
\* checkpoint at that point is included.
C24_Checkpoints ==
    HasPlan =>
        /\ plan.result.route.checkpoints = SelectSeq(checkpoints, Along)
        /\ plan.pickup_loc.pos = plan.delivery_loc.pos =>
              \A k \in DOMAIN plan.result.route.checkpoints :
                  plan.result.route.checkpoints[k].pos = plan.pickup_loc.pos

\* C24 witness: a plan between two different hospitals that takes the first
\* two checkpoints of the registry and leaves the other two out.
C24_Witness ==
    /\ HasPlan
    /\ plan.pickup_loc.pos # plan.delivery_loc.pos
    /\ Len(checkpoints) = 4
    /\ plan.result.route.checkpoints = <<checkpoints[1], checkpoints[2]>>


\* The registry positions of the hospitals whose lower-cased name contains
\* the lower-cased query
Matches(query) ==
    {k \in DOMAIN hospitals : Contains(Lower(NameWords(hospitals[k].name)), Lower(query))}

\* loc is what the claim says the query resolves to
ResolvesTo(query, loc) ==
    IF Matches(query) = {} THEN loc = NoLocation
    ELSE \E k \in Matches(query) : (\A j \in Matches(query) : k <= j) /\ loc = hospitals[k]

\* C26: a name resolves to the first hospital of the registry whose
\* lower-cased name contains the lower-cased query, never to a checkpoint,
\* and to none when no hospital name contains it.
C26_NameResolution ==
    PlanDone =>
        /\ ResolvesTo(plan.pickup_hospital, plan.pickup_loc)
        /\ ResolvesTo(plan.delivery_hospital, plan.delivery_loc)
        /\ plan.pickup_loc \notin Range(checkpoints)
        /\ plan.delivery_loc \notin Range(checkpoints)

\* C26 witness: a pickup name contained in several hospital names resolves
\* to the first of them, and a delivery name contained only in a
\* checkpoint's name resolves to none.
C26_Witness ==
    /\ PlanDone
    /\ Cardinality(Matches(plan.pickup_hospital)) >= 2
    /\ plan.pickup_hospital # <<>>
    /\ plan.pickup_loc = hospitals[1]
    /\ \E k \in DOMAIN checkpoints :
          Contains(Lower(NameWords(checkpoints[k].name)), Lower(plan.delivery_hospital))
    /\ plan.delivery_hospital # <<>>
    /\ plan.delivery_loc = NoLocation


--------------------------------------------------------------------------
(* Properties of the engine as a whole (checked under SpecEngine) *)

\* C19: no engine call changes the fleet (flags, locations, order), the
\* hospital registry or the checkpoint registry, and the requests of an
\* optimize call stay as passed.
C19_FrameFleetAndRegistries ==
    [][/\ vehicles' = vehicles
       /\ hospitals' = hospitals
       /\ checkpoints' = checkpoints
       /\ (opt.pc # "idle" /\ opt'.pc # "idle") => opt'.reqs = opt.reqs]_vars

\* C19 witness: a plan has been made and its selected vehicle is still in
\* the fleet, still available.
C19_Witness ==
    /\ HasPlan
    /\ plan.best_vehicle.available
    /\ \E k \in DOMAIN vehicles : vehicles[k] = plan.best_vehicle

\* The solver vehicles (1-based) whose tour visits a stop
UsedVehicles == {v \in DOMAIN opt.tours : opt.tours[v] # <<>>}

\* The k-th of them in increasing order
KthUsed(k) == CHOOSE v \in UsedVehicles : Cardinality({u \in UsedVehicles : u < v}) = k - 1

\* C29: every route of the solver path starts and ends at the depot, the
\* first request's pickup location, has at least three locations and is
\* assigned to the fleet vehicle at the position of its solver vehicle,
\* which is below min(|fleet|, N), whatever that vehicle's available flag;
\* a solver vehicle without stops produces no route.
C29_SolverRoutes ==
    (OptDone /\ opt.outcome = "solution") =>
        LET routes == opt.result.routes
            depot == opt.reqs[1].pickup_location
        IN  /\ opt.locations[1] = depot
            /\ Len(routes) = Cardinality(UsedVehicles)
            /\ \A k \in DOMAIN routes :
                  /\ Len(routes[k].locations) >= 3
                  /\ routes[k].locations[1] = depot
                  /\ routes[k].locations[Len(routes[k].locations)] = depot
                  /\ KthUsed(k) - 1 < Len(vehicles)
                  /\ KthUsed(k) - 1 < Len(opt.reqs)
                  /\ routes[k].vehicle = vehicles[KthUsed(k)]

\* C29 witness: the first solver vehicle has no stop and produces no route;
\* the only route belongs to the second fleet vehicle, which is not available.
C29_Witness ==
    /\ OptDone
    /\ opt.outcome = "solution"
    /\ UsedVehicles = {2}
    /\ Len(opt.result.routes) = 1
    /\ opt.result.routes[1].vehicle = vehicles[2]
    /\ ~vehicles[2].available

--------------------------------------------------------------------------
(* Properties of two callers on one engine (checked under SpecTwoPlans) *)

Planned(c) == calls[c].pc = "done" /\ "status" \in DOMAIN calls[c].result

UrgencyOf(c) ==
    IF "urgency" \in DOMAIN calls[c].organ_data THEN calls[c].organ_data.urgency ELSE 50

\* C28: selection reserves nothing: two calls on the same fleet with the same
\* pickup and the same urgency, one after the other or interleaved, select
\* the same vehicle, and the vehicle stays in the fleet as it was.
C28_NoReservation ==
    \A c \in Callers, d \in Callers :
        (Planned(c) /\ Planned(d) /\ calls[c].pickup_loc = calls[d].pickup_loc
         /\ UrgencyOf(c) = UrgencyOf(d)) =>
            /\ calls[c].best_vehicle = calls[d].best_vehicle
            /\ \E k \in DOMAIN vehicles : vehicles[k] = calls[c].best_vehicle

\* C28 witness: the two callers hold plans for different organs at once, and
\* both plans have the same vehicle, which is available in a fleet that has
\* another available vehicle.
C28_Witness ==
    /\ Planned(1)
    /\ Planned(2)
    /\ calls[1].result.organ_id # calls[2].result.organ_id
    /\ calls[1].result.vehicle.id = calls[2].result.vehicle.id
    /\ calls[1].best_vehicle.available
    /\ \E k \in DOMAIN vehicles : vehicles[k].available /\ vehicles[k] # calls[1].best_vehicle

==========================================================================
